---- MODULE Spec2Model ----
(***************************************************************************)
(* Model of extras/create_send_notifications.py: one batch run of          *)
(* main(): logging setup, organisation resolution, per-organisation        *)
(* notification PDF generation, "latest" symlink maintenance, delivery     *)
(* through cyhy-mailer and the two delete_many passes over the             *)
(* NotificationDoc collection.                                             *)
(***************************************************************************)
EXTENDS Integers, Sequences, FiniteSets, TLC

\* Organisation ids are 1..NumOrgs; at most MaxRecords NotificationDocs.
NumOrgs == 3
MaxRecords == 2
\* at most MaxExternalWrites writes by other processes during a run
MaxExternalWrites == 1

Orgs == 1..NumOrgs

\* --log-level values accepted by logging.basicConfig (level=log_level.upper())
ValidLogLevels == {"debug", "info", "warning", "error", "critical"}
\* the values a run is started with: the default and one invalid string
LogLevelInputs == {"warning", "verbose"}

\* exit statuses of the docker compose subprocess
ReturnCodes == {0, 1}

\* what may sit at notification_archive/latest before a run, and after it
LatestBefore == {"absent", "link_live", "link_dangling", "directory"}

VARIABLES
    pc,                \* position in main()
    log_level,         \* args["--log-level"]
    requests,          \* db.RequestDoc: _id -> [cyhy, children]
    notifications,     \* db.NotificationDoc: set of [ticket_owner, generated_for]
    latest,            \* notification_archive/latest on disk
    cyhy_org_ids,      \* main's cyhy_org_ids (a list)
    response,          \* the last (was_encrypted, results), <<>> before any call
    outcomes,          \* the branch taken for each generate_notification() call so far
    num_pdfs_created,  \* the counter, then generate_notification_pdfs' return value
    deliveries,        \* number of docker compose invocations
    return_code,       \* <<p.returncode>>, <<>> before delivery
    post_runs,         \* executions of delete_many({"generated_for": {"$ne": []}})
    oos_runs,          \* executions of delete_many({"ticket_owner": {"$nin": ...}})
    deleted_post,      \* the documents the first delete_many removed
    deleted_oos,       \* the documents the second delete_many removed
    exit_code,         \* <<status>> once the process has ended, <<>> while it runs
    archive_dir,       \* whether today's notification archive directory exists
    org_reads,         \* number of calls of build_cyhy_org_list
    generated_orgs,    \* the org_id of each NotificationGenerator made so far
    store_at_resolution, \* the NotificationDocs there were when the list was built
    external_writes    \* NotificationDoc writes by other processes during the run

vars == <<pc, log_level, requests, notifications, latest, cyhy_org_ids, response,
          outcomes, num_pdfs_created, deliveries, return_code, post_runs, oos_runs,
          deleted_post, deleted_oos, exit_code, archive_dir, org_reads,
          generated_orgs, store_at_resolution, external_writes>>

----------------------------------------------------------------------------
\* Sequences and sets

Range(s) == {s[i] : i \in 1..Len(s)}

\* all the orderings of a finite set, as sequences without repetition
Orderings(S) ==
    {s \in [1..Cardinality(S) -> S] : \A i, j \in 1..Cardinality(S) : s[i] = s[j] => i = j}

\* a finite set of organisation ids in ascending order: sort([("_id", 1)])
RECURSIVE SortById(_)
SortById(S) ==
    IF S = {} THEN <<>>
    ELSE LET m == CHOOSE x \in S : \A y \in S : x <= y
         IN  <<m>> \o SortById(S \ {m})

----------------------------------------------------------------------------
\* db.RequestDoc

\* RequestDoc.get_all_descendants(org_id) of cyhy.db: the children of org_id,
\* their children, and so on
RECURSIVE DescendantsWithin(_, _, _)
DescendantsWithin(reqs, org_id, depth) ==
    IF depth = 0 THEN {}
    ELSE reqs[org_id].children
         \cup UNION {DescendantsWithin(reqs, c, depth - 1) : c \in reqs[org_id].children}

get_all_descendants(reqs, org_id) == DescendantsWithin(reqs, org_id, NumOrgs)

\* the child relation has no cycle
Acyclic(reqs) == \A o \in Orgs : o \notin DescendantsWithin(reqs, o, NumOrgs)

\* every RequestDoc collection over Orgs without a cycle
RequestCollections ==
    {reqs \in [Orgs -> [cyhy : BOOLEAN, children : SUBSET Orgs]] : Acyclic(reqs)}

\* the collections in which no organisation has children
FlatCollections == [Orgs -> [cyhy : BOOLEAN, children : {{}}]]

\* find({"report_types": "CYHY"}, {"_id": 1, "children": 1}).sort([("_id", 1)])
FindCyhyRequests(reqs) == SortById({o \in Orgs : reqs[o].cyhy})

\* the body of build_cyhy_org_list's for loop, over the found requests
RECURSIVE AddCyhyRequests(_, _, _)
AddCyhyRequests(reqs, found, ids) ==
    IF found = <<>> THEN ids
    ELSE LET id      == Head(found)
             added   == ids \cup {id}
             updated == IF reqs[id].children # {}
                        THEN added \cup get_all_descendants(reqs, id)
                        ELSE added
         IN  AddCyhyRequests(reqs, Tail(found), updated)

\* a plausible slip: update(cyhy_request["children"]), the direct children only
CyhyAndChildren(reqs) ==
    {o \in Orgs : reqs[o].cyhy} \cup UNION {reqs[o].children : o \in {x \in Orgs : reqs[x].cyhy}}

\* the set cyhy_org_ids that build_cyhy_org_list accumulates
CyhyOrgIdSet(reqs) == AddCyhyRequests(reqs, FindCyhyRequests(reqs), {})

\* a plausible slip: cyhy_org_ids is a list, filled with append and extend
RECURSIVE AppendCyhyRequests(_, _)
AppendCyhyRequests(reqs, found) ==
    IF found = <<>> THEN <<>>
    ELSE <<Head(found)>> \o SortById(get_all_descendants(reqs, Head(found)))
         \o AppendCyhyRequests(reqs, Tail(found))

BuildListWithoutSet(reqs) == {AppendCyhyRequests(reqs, FindCyhyRequests(reqs))}

\* build_cyhy_org_list: list(cyhy_org_ids), in whichever order the set iterates
build_cyhy_org_list(reqs) == Orderings(CyhyOrgIdSet(reqs))

----------------------------------------------------------------------------
\* db.NotificationDoc and NotificationGenerator

\* a NotificationDoc: its owner and the organisations it was rendered for
NotificationDocs ==
    {[ticket_owner |-> o, generated_for |-> IF rendered THEN <<o>> ELSE <<>>] :
        o \in Orgs, rendered \in BOOLEAN}

\* the contents the collection may have when a run starts
NotificationStores == {S \in SUBSET NotificationDocs : Cardinality(S) <= MaxRecords}

\* what generate_notification() returns: (was_encrypted, results); results is
\* None (<<>>) or a document with a "notifications" list (<<doc>>)
Responses ==
    [was_encrypted : BOOLEAN,
     results : {<<>>, <<[notifications |-> <<>>]>>, <<[notifications |-> <<"n">>]>>}]

\* a plausible slip: "results is None or len(results["notifications"]) == 0"
OutcomeNoneIsEmpty(r) ==
    IF r.was_encrypted THEN "Encrypted"
    ELSE IF r.results = <<>> \/ Len(r.results[1].notifications) = 0
         THEN "EmptySkip"
         ELSE "Failure"

\* the branch generate_notification_pdfs takes on a response (if / elif / else)
Outcome(r) ==
    IF r.was_encrypted THEN "Encrypted"
    ELSE IF r.results # <<>> /\ Len(r.results[1].notifications) = 0
         THEN "EmptySkip"
         ELSE "Failure"

\* a plausible slip: "num_pdfs_created += 1" after the if, for an empty result too
CountAfterAnyPdfAttempt(n, outcome) ==
    IF outcome = "Failure" THEN -1 ELSE n + 1

\* the counter after a branch; the else branch returns -1 in its place
CountAfter(n, outcome) ==
    CASE outcome = "Encrypted" -> n + 1
      [] outcome = "EmptySkip" -> n
      [] outcome = "Failure"   -> -1

\* a plausible slip: "continue" in place of "return -1"
AfterOutcomeContinue(outcome) == "generate"

\* where control goes after a branch: the else branch leaves the function
AfterOutcome(outcome) == IF outcome = "Failure" THEN "symlink" ELSE "generate"

\* NotificationGenerator rendering org_id's notifications into a PDF: every
\* NotificationDoc of that owner gets org_id added to generated_for
MarkGenerated(docs, org_id) ==
    {IF d.ticket_owner = org_id
     THEN [d EXCEPT !.generated_for = Append(@, org_id)]
     ELSE d : d \in docs}

\* a plausible slip: the filter {"generated_for": []}
GeneratedForEmpty(docs) == {d \in docs : d.generated_for = <<>>}

\* delete_many({"generated_for": {"$ne": []}}): the documents it removes
GeneratedForNotEmpty(docs) == {d \in docs : d.generated_for # <<>>}

\* a plausible slip: the filter is applied to the documents found when the
\* list was built
OwnerNotInAtResolution(docs, org_ids) ==
    {d \in docs \cap store_at_resolution : d.ticket_owner \notin Range(org_ids)}

\* a plausible slip: delete_many({}), no filter
AllDocs(docs, org_ids) == docs

\* a plausible slip: "$in" in place of "$nin"
OwnerIn(docs, org_ids) == {d \in docs : d.ticket_owner \in Range(org_ids)}

\* delete_many({"ticket_owner": {"$nin": org_ids}}): the documents it removes
OwnerNotIn(docs, org_ids) == {d \in docs : d.ticket_owner \notin Range(org_ids)}

\* a plausible slip: "if num_pdfs_created is not None:"
IsNotNone(n) == TRUE

\* the test "if num_pdfs_created:"
Truthy(n) == n # 0

\* a plausible slip: subprocess.check_call, which raises on a non-zero status
AfterDeliveryChecked(rc) == IF rc = 0 THEN "post_cleanup" ELSE "aborted"

\* where control goes after p.communicate(): both branches only log
AfterDelivery(rc) == "post_cleanup"

\* a plausible slip: the except branch logs and does not return
NeverRaises(level) == FALSE

\* logging.basicConfig(level=log_level.upper()) raises ValueError
BasicConfigRaises(level) == level \notin ValidLogLevels

\* a plausible slip: the symlink is made after the emails were sent
LatestLeftAsIs(removed) == removed

\* os.symlink(archive directory, latest) where nothing is in the way
LatestAfterSymlink(removed) == "link_current"

\* a plausible slip: Popen without communicate(), the deletion does not wait
AfterLatestNoWait(n) == IF Truthy(n) THEN "post_cleanup" ELSE "oos_cleanup"

\* the branch of "if num_pdfs_created:" taken once latest is in place
AfterLatest(n) == IF Truthy(n) THEN "deliver" ELSE "oos_cleanup"

\* os.path.exists follows symbolic links
PathExists(l) == l \in {"link_live", "directory"}

----------------------------------------------------------------------------
\* main()

\* everything a run has not touched yet
NothingDoneYet ==
    /\ response = <<>>
    /\ outcomes = <<>>
    /\ num_pdfs_created = 0
    /\ deliveries = 0
    /\ return_code = <<>>
    /\ post_runs = 0
    /\ oos_runs = 0
    /\ deleted_post = {}
    /\ deleted_oos = {}
    /\ exit_code = <<>>
    /\ org_reads = 0
    /\ generated_orgs = <<>>
    /\ store_at_resolution = {}
    /\ external_writes = 0

Init ==
    /\ pc = "start"
    /\ log_level \in LogLevelInputs
    /\ requests \in FlatCollections
    /\ notifications \in NotificationStores
    /\ latest \in LatestBefore
    /\ archive_dir \in BOOLEAN
    /\ cyhy_org_ids = <<>>
    /\ NothingDoneYet

\* lines 86-98: logging.basicConfig raises ValueError on an unknown level
SetupLogging ==
    /\ pc = "start"
    /\ IF ~BasicConfigRaises(log_level)
       THEN /\ pc' = "resolve"
            /\ exit_code' = exit_code
       ELSE /\ pc' = "done"
            /\ exit_code' = <<1>>
    /\ UNCHANGED <<log_level, requests, notifications, latest, cyhy_org_ids, response,
                   outcomes, num_pdfs_created, deliveries, return_code, post_runs,
                   oos_runs, deleted_post, deleted_oos,
                   archive_dir, org_reads, generated_orgs, store_at_resolution, external_writes>>

\* lines 100-111: connect, create and enter the archive directory, build the list
BuildOrgList ==
    /\ pc = "resolve"
    /\ archive_dir' = TRUE
    /\ cyhy_org_ids' \in build_cyhy_org_list(requests)
    /\ org_reads' = org_reads + 1
    /\ store_at_resolution' = notifications
    /\ pc' = "generate"
    /\ UNCHANGED <<log_level, requests, notifications, latest, response, outcomes,
                   num_pdfs_created, deliveries, return_code, post_runs, oos_runs,
                   deleted_post, deleted_oos, exit_code,
                   generated_orgs, external_writes>>

\* lines 67-80: one iteration of generate_notification_pdfs' loop
GenerateOne ==
    /\ pc = "generate"
    /\ Len(outcomes) < Len(cyhy_org_ids)
    /\ \E r \in Responses :
         LET org_id  == cyhy_org_ids[Len(outcomes) + 1]
             outcome == Outcome(r)
         IN  /\ generated_orgs' = Append(generated_orgs, org_id)
             /\ response' = <<r>>
             /\ outcomes' = Append(outcomes, outcome)
             /\ notifications' = IF r.was_encrypted
                                 THEN MarkGenerated(notifications, org_id)
                                 ELSE notifications
             /\ num_pdfs_created' = CountAfter(num_pdfs_created, outcome)
             /\ pc' = AfterOutcome(outcome)
    /\ UNCHANGED <<log_level, requests, latest, cyhy_org_ids, deliveries, return_code,
                   post_runs, oos_runs, deleted_post, deleted_oos, exit_code,
                   archive_dir, org_reads, store_at_resolution, external_writes>>

\* line 81: the loop is exhausted, return num_pdfs_created
GenerateReturn ==
    /\ pc = "generate"
    /\ Len(outcomes) = Len(cyhy_org_ids)
    /\ pc' = "symlink"
    /\ UNCHANGED <<log_level, requests, notifications, latest, cyhy_org_ids, response,
                   outcomes, num_pdfs_created, deliveries, return_code, post_runs,
                   oos_runs, deleted_post, deleted_oos, exit_code,
                   archive_dir, org_reads, generated_orgs, store_at_resolution, external_writes>>

\* lines 118-130 and 165-166: replace notification_archive/latest, then test
\* num_pdfs_created.  os.remove raises on a directory and os.symlink raises
\* when the name is still taken; the exception ends the process with status 1.
UpdateLatest ==
    /\ pc = "symlink"
    /\ LET removed == IF PathExists(latest) THEN "absent" ELSE latest
           raises  == (PathExists(latest) /\ latest = "directory") \/ removed # "absent"
       IN  IF raises
           THEN /\ pc' = "aborted"
                /\ exit_code' = <<1>>
                /\ latest' = latest
           ELSE /\ latest' = LatestAfterSymlink(removed)
                /\ pc' = AfterLatest(num_pdfs_created)
                /\ exit_code' = exit_code
    /\ UNCHANGED <<log_level, requests, notifications, cyhy_org_ids, response, outcomes,
                   num_pdfs_created, deliveries, return_code, post_runs, oos_runs,
                   deleted_post, deleted_oos,
                   archive_dir, org_reads, generated_orgs, store_at_resolution, external_writes>>

\* lines 131-155: docker compose up in CYHY_MAILER_DIR, wait, log by return code
Deliver ==
    /\ pc = "deliver"
    /\ \E rc \in ReturnCodes :
         /\ return_code' = <<rc>>
         /\ pc' = AfterDelivery(rc)
    /\ deliveries' = deliveries + 1
    /\ UNCHANGED <<log_level, requests, notifications, latest, cyhy_org_ids, response,
                   outcomes, num_pdfs_created, post_runs, oos_runs, deleted_post,
                   deleted_oos, exit_code,
                   archive_dir, org_reads, generated_orgs, store_at_resolution, external_writes>>

\* lines 157-164: delete all NotificationDocs where generated_for is not []
DeleteGenerated ==
    /\ pc = "post_cleanup"
    /\ deleted_post' = GeneratedForNotEmpty(notifications)
    /\ notifications' = notifications \ GeneratedForNotEmpty(notifications)
    /\ post_runs' = post_runs + 1
    /\ pc' = "oos_cleanup"
    /\ UNCHANGED <<log_level, requests, latest, cyhy_org_ids, response, outcomes,
                   num_pdfs_created, deliveries, return_code, oos_runs, deleted_oos,
                   exit_code,
                   archive_dir, org_reads, generated_orgs, store_at_resolution, external_writes>>

\* lines 168-181: delete all NotificationDocs whose ticket_owner is not a CyHy
\* org, shut logging down and return 0
DeleteNonCyhy ==
    /\ pc = "oos_cleanup"
    /\ deleted_oos' = OwnerNotIn(notifications, cyhy_org_ids)
    /\ notifications' = notifications \ OwnerNotIn(notifications, cyhy_org_ids)
    /\ oos_runs' = oos_runs + 1
    /\ pc' = "done"
    /\ exit_code' = <<0>>
    /\ UNCHANGED <<log_level, requests, latest, cyhy_org_ids, response, outcomes,
                   num_pdfs_created, deliveries, return_code, post_runs, deleted_post,
                   archive_dir, org_reads, generated_orgs, store_at_resolution, external_writes>>

Next ==
    \/ SetupLogging
    \/ BuildOrgList
    \/ GenerateOne
    \/ GenerateReturn
    \/ UpdateLatest
    \/ Deliver
    \/ DeleteGenerated
    \/ DeleteNonCyhy

\* a run of main() over a collection of organisations without children and
\* any NotificationDoc collection
Spec == Init /\ [][Next]_vars

InitOrgs ==
    /\ pc = "start"
    /\ log_level = "warning"
    /\ requests \in RequestCollections
    /\ notifications = {}
    /\ latest = "absent"
    /\ archive_dir = FALSE
    /\ cyhy_org_ids = <<>>
    /\ NothingDoneYet

NextOrgs ==
    \/ SetupLogging
    \/ BuildOrgList
    \/ GenerateOne
    \/ GenerateReturn

\* main() up to the return of generate_notification_pdfs, over any acyclic
\* collection of organisations
SpecOrgs == InitOrgs /\ [][NextOrgs]_vars

\* another process writes the NotificationDoc collection while the batch runs,
\* after the list was built: it inserts a document or changes an owner
ExternalWrite ==
    /\ pc \in {"generate", "symlink", "deliver", "post_cleanup", "oos_cleanup"}
    /\ external_writes < MaxExternalWrites
    /\ \/ \E d \in NotificationDocs \ notifications :
            /\ Cardinality(notifications) < MaxRecords
            /\ notifications' = notifications \cup {d}
       \/ \E d \in notifications, o \in Orgs :
            /\ o # d.ticket_owner
            /\ [d EXCEPT !.ticket_owner = o] \notin notifications
            /\ notifications' = (notifications \ {d}) \cup {[d EXCEPT !.ticket_owner = o]}
    /\ external_writes' = external_writes + 1
    /\ UNCHANGED <<pc, log_level, requests, latest, cyhy_org_ids, response, outcomes,
                   num_pdfs_created, deliveries, return_code, post_runs, oos_runs,
                   deleted_post, deleted_oos, exit_code, archive_dir, org_reads,
                   generated_orgs, store_at_resolution>>

\* the collections in which organisation 1 alone may have report type CYHY
OneCyhyCollections == {reqs \in FlatCollections : \A o \in Orgs \ {1} : ~reqs[o].cyhy}

InitLive ==
    /\ pc = "start"
    /\ log_level = "warning"
    /\ requests \in OneCyhyCollections
    /\ notifications \in NotificationStores
    /\ latest = "absent"
    /\ archive_dir = FALSE
    /\ cyhy_org_ids = <<>>
    /\ NothingDoneYet

NextLive ==
    \/ Next
    \/ ExternalWrite

\* a run of main() while other processes write the NotificationDoc collection
SpecLive == InitLive /\ [][NextLive]_vars

\* every list of organisation ids, repetitions included
OrgIdLists == UNION {[1..n -> Orgs] : n \in 0..NumOrgs}

InitGen ==
    /\ pc = "generate"
    /\ log_level = "warning"
    /\ requests \in {[o \in Orgs |-> [cyhy |-> FALSE, children |-> {}]]}
    /\ notifications \in NotificationStores
    /\ latest = "absent"
    /\ archive_dir = TRUE
    /\ cyhy_org_ids \in OrgIdLists
    /\ NothingDoneYet

NextGen ==
    \/ GenerateOne
    \/ GenerateReturn

\* generate_notification_pdfs(db, org_ids, key) called on any list
SpecGen == InitGen /\ [][NextGen]_vars

----------------------------------------------------------------------------
\* Properties

HasFailure == \E i \in 1..Len(outcomes) : outcomes[i] = "Failure"

HasEncrypted == \E i \in 1..Len(outcomes) : outcomes[i] = "Encrypted"

AllEmptySkip == \A i \in 1..Len(outcomes) : outcomes[i] = "EmptySkip"

LastOutcome == outcomes[Len(outcomes)]

\* build_cyhy_org_list has returned in this run
Resolved == pc \notin {"start", "resolve"} /\ log_level \in ValidLogLevels

\* generate_notification_pdfs has returned in this run
GenerationReturned == Resolved /\ pc # "generate"

\* the least set holding S and the children of its members
RECURSIVE ClosedUnderChildren(_, _)
ClosedUnderChildren(reqs, S) ==
    LET T == S \cup UNION {reqs[x].children : x \in S}
    IN  IF T = S THEN S ELSE ClosedUnderChildren(reqs, T)

\* the organisations with report type CYHY and all that descend from them
CyhyOrgsAndDescendants(reqs) == ClosedUnderChildren(reqs, {o \in Orgs : reqs[o].cyhy})

\* C1: in a run in which some organisation's generation outcome is Failure,
\* docker compose is never invoked and neither delete_many is executed, so the
\* NotificationDoc collection keeps the documents it had when generation stopped.
C1_FailureSkipsDeliveryAndCleanup ==
    HasFailure =>
        /\ deliveries = 0
        /\ post_runs = 0 /\ deleted_post = {}
        /\ oos_runs = 0 /\ deleted_oos = {}

\* C2: a run in which some organisation's outcome is Failure does not end with
\* exit status 0; status 0 is only returned when no organisation failed.
C2_FailureExitsNonZero == exit_code = <<0>> => ~HasFailure

\* C3: fail-fast generation.  A Failure is always the last call made: the loop
\* has been left, no later organisation of the list is passed to the generator,
\* and the value returned is the failure signal -1, not a count.
C3_FailFast ==
    /\ Len(outcomes) <= Len(cyhy_org_ids)
    /\ \A i \in 1..Len(outcomes) :
         outcomes[i] = "Failure" =>
            /\ i = Len(outcomes)
            /\ pc # "generate"
            /\ num_pdfs_created = -1
    /\ ~HasFailure => num_pdfs_created >= 0

\* C3 witness: generation stopped on a Failure that was neither the first call
\* nor the last organisation of the list
C3_Witness ==
    /\ pc = "symlink"
    /\ Len(outcomes) >= 2
    /\ LastOutcome = "Failure"
    /\ Len(outcomes) < Len(cyhy_org_ids)

\* C4: docker compose is invoked at most once in a run, and only in a run in
\* which at least one organisation's outcome was Encrypted.
C4_DeliveryOnlyAfterEncrypted ==
    /\ deliveries <= 1
    /\ deliveries > 0 => HasEncrypted

C6_PostDeliveryCleanupExact ==
    [][/\ (pc = "symlink" /\ num_pdfs_created > 0 /\ pc' # "aborted") => pc' = "deliver"
       /\ pc = "deliver" => (pc' = "post_cleanup" /\ return_code' # <<>>)
       /\ pc = "post_cleanup" =>
            /\ notifications' = {d \in notifications : d.generated_for = <<>>}
            /\ deleted_post' = {d \in notifications : d.generated_for # <<>>}
            /\ post_runs' = 1]_vars

\* C6 witness: after a failed delivery the pass has removed some documents and
\* kept others
C6_Witness ==
    /\ pc = "oos_cleanup"
    /\ num_pdfs_created > 0
    /\ return_code = <<1>>
    /\ post_runs = 1
    /\ deleted_post # {}
    /\ notifications # {}

\* C7: the ticket_owner delete_many removes exactly the documents whose owner is
\* not in the list resolved at the start of the run, which is not changed in
\* between, and keeps the others; with an empty list it removes every document.
C7_OutOfScopeCleanupExact ==
    [][/\ Resolved => cyhy_org_ids' = cyhy_org_ids
       /\ pc = "oos_cleanup" =>
            /\ Range(cyhy_org_ids) = CyhyOrgsAndDescendants(requests)
            /\ notifications' =
                 {d \in notifications : d.ticket_owner \in Range(cyhy_org_ids)}
            /\ deleted_oos' =
                 {d \in notifications : d.ticket_owner \notin Range(cyhy_org_ids)}
            /\ cyhy_org_ids = <<>> => notifications' = {}
            /\ oos_runs' = 1]_vars

\* C7 witness: the pass has removed a document and kept another
C7_Witness ==
    /\ pc = "done"
    /\ oos_runs = 1
    /\ deleted_oos # {}
    /\ notifications # {}

\* C8: after a non-zero return code of docker compose the run goes on: it is at
\* one of the delete_many passes or has ended, it can always take its next
\* step, and when it has ended both passes have run and the exit status is 0.
C8_DeliveryFailureDoesNotAbort ==
    (return_code # <<>> /\ return_code # <<0>>) =>
        /\ pc \in {"post_cleanup", "oos_cleanup", "done"}
        /\ pc # "post_cleanup" => post_runs = 1
        /\ pc # "done" => ENABLED Next
        /\ pc = "done" => (post_runs = 1 /\ oos_runs = 1 /\ exit_code = <<0>>)

\* C8 witness: a run that ended with status 0 after a failed delivery
C8_Witness ==
    /\ pc = "done"
    /\ return_code = <<1>>
    /\ post_runs = 1 /\ oos_runs = 1
    /\ exit_code = <<0>>

\* C9: for an acyclic collection build_cyhy_org_list returns the organisations
\* whose report types hold CYHY and every transitive descendant of one, whatever
\* its own report types, each id once, and no other organisation.
C9_ResolvedOrgSet ==
    Resolved =>
        /\ Range(cyhy_org_ids) = CyhyOrgsAndDescendants(requests)
        /\ Len(cyhy_org_ids) = Cardinality(CyhyOrgsAndDescendants(requests))

\* C9 witness: two qualifying organisations share a child without report type
\* CYHY, and the list holds the three ids once each
C9_Witness ==
    /\ pc = "generate"
    /\ Len(cyhy_org_ids) = 3
    /\ \E a, b, c \in Orgs :
         /\ a # b
         /\ requests[a].cyhy /\ requests[b].cyhy /\ ~requests[c].cyhy
         /\ c \in requests[a].children /\ c \in requests[b].children

\* C10: each response maps to exactly one outcome: Encrypted when was_encrypted
\* holds, whatever results is; EmptySkip when it does not, results is not None
\* and notifications is empty; Failure for every other response.
C10_OutcomeMapping ==
    response # <<>> =>
        LET r == response[1]
        IN  /\ LastOutcome \in {"Encrypted", "EmptySkip", "Failure"}
            /\ r.was_encrypted => LastOutcome = "Encrypted"
            /\ (~r.was_encrypted /\ r.results # <<>>
                  /\ r.results[1].notifications = <<>>) => LastOutcome = "EmptySkip"
            /\ (~r.was_encrypted
                  /\ (r.results = <<>> \/ r.results[1].notifications # <<>>))
                 => LastOutcome = "Failure"

\* C10 witness: a response that is not encrypted and has no results is a Failure
C10_Witness ==
    /\ response = <<[was_encrypted |-> FALSE, results |-> <<>>]>>
    /\ LastOutcome = "Failure"

\* C11: with an invalid log level the only step of the run is the exit with
\* status 1: the organisations are not read, the archive directory and latest
\* are not touched, no generator is made, docker compose is not invoked and no
\* NotificationDoc is deleted.
C11_InvalidLogLevelExitsFirst ==
    [][log_level \notin ValidLogLevels =>
         /\ pc = "start" /\ pc' = "done"
         /\ exit_code' = <<1>>
         /\ UNCHANGED <<requests, notifications, latest, archive_dir, cyhy_org_ids,
                        org_reads, generated_orgs, outcomes, deliveries, return_code,
                        post_runs, oos_runs, deleted_post, deleted_oos>>]_vars

\* C11 witness: a run with an invalid log level has ended and left a non-empty
\* NotificationDoc collection and a missing archive directory as they were
C11_Witness ==
    /\ log_level \notin ValidLogLevels
    /\ pc = "done"
    /\ exit_code = <<1>>
    /\ notifications # {}
    /\ ~archive_dir
    /\ org_reads = 0

\* C12: whatever is at notification_archive/latest before the run, the symlink
\* step does not raise and leaves latest a link to this run's archive directory.
C12_LatestReplacedFromAnyState ==
    /\ pc # "aborted"
    /\ (pc \in {"deliver", "post_cleanup", "oos_cleanup"}
          \/ (pc = "done" /\ exit_code = <<0>>)) => latest = "link_current"

\* C13: step order.  The list is built once and before any generator call;
\* generator calls are made only before delivery; docker compose is invoked only
\* when generation has returned; the generated_for delete_many runs only after
\* delivery returned and before the ticket_owner delete_many; a run executes at
\* most two delete_many.
C13_StepOrder ==
    [][/\ org_reads' # org_reads =>
            (org_reads = 0 /\ generated_orgs = <<>> /\ deliveries = 0)
       /\ generated_orgs' # generated_orgs =>
            (org_reads = 1 /\ deliveries = 0 /\ post_runs = 0 /\ oos_runs = 0)
       /\ deliveries' # deliveries =>
            (GenerationReturned /\ pc = "deliver" /\ post_runs = 0 /\ oos_runs = 0)
       /\ post_runs' # post_runs =>
            (deliveries = 1 /\ return_code # <<>> /\ oos_runs = 0)
       /\ oos_runs' # oos_runs => (deliveries > 0 => post_runs = 1)
       /\ post_runs' + oos_runs' <= 2]_vars

\* C13 witness: a finished run with two generator calls, a delivery and both
\* delete_many
C13_Witness ==
    /\ pc = "done"
    /\ org_reads = 1
    /\ Len(generated_orgs) >= 2
    /\ deliveries = 1
    /\ post_runs = 1 /\ oos_runs = 1

\* C14: when docker compose is invoked, and from then on, latest is a link to
\* this run's archive directory, which exists.
C14_LatestInPlaceBeforeDelivery ==
    (pc = "deliver" \/ deliveries > 0) => (latest = "link_current" /\ archive_dir)

\* C14 witness: docker compose has returned and latest points at the archive
C14_Witness ==
    /\ pc = "post_cleanup"
    /\ deliveries = 1
    /\ latest = "link_current"

\* C15: each delete_many filters the documents the collection holds when it
\* runs: of those, the first keeps exactly the ones with empty generated_for and
\* the second exactly the ones whose owner is in the list, whether or not a
\* document was there, or had these values, when the list was built.
C15_FiltersSeeCurrentStore ==
    [][/\ (pc = "post_cleanup" /\ pc' # pc) =>
            /\ notifications' \subseteq notifications
            /\ \A d \in notifications : d \in notifications' <=> d.generated_for = <<>>
       /\ (pc = "oos_cleanup" /\ pc' # pc) =>
            /\ notifications' \subseteq notifications
            /\ \A d \in notifications :
                 d \in notifications' <=> d.ticket_owner \in Range(cyhy_org_ids)]_vars

\* C15 witness: the first pass removed a document rendered during this run and
\* the second one a document written by another process after the list was built
C15_Witness ==
    /\ pc = "done"
    /\ external_writes > 0
    /\ \E d \in deleted_post : d \notin store_at_resolution
    /\ \E d \in deleted_oos : d \notin store_at_resolution /\ d.generated_for = <<>>

\* the number of Encrypted outcomes so far
EncryptedCount == Cardinality({i \in 1..Len(outcomes) : outcomes[i] = "Encrypted"})

\* C16: while no organisation has failed the counter is the number of Encrypted
\* outcomes, so it is not negative and an EmptySkip leaves it as it was; the
\* function then returns only when the whole list has been processed.
C16_CountOfEncrypted ==
    ~HasFailure =>
        /\ num_pdfs_created = EncryptedCount
        /\ num_pdfs_created >= 0
        /\ pc # "generate" => Len(outcomes) = Len(cyhy_org_ids)

\* C16 witness: the function returned 1 after an EmptySkip followed by an
\* Encrypted outcome
C16_Witness ==
    /\ pc = "symlink"
    /\ ~HasFailure
    /\ num_pdfs_created = 1
    /\ \E i, j \in 1..Len(outcomes) :
         i < j /\ outcomes[i] = "EmptySkip" /\ outcomes[j] = "Encrypted"

\* C17: in a run no organisation id is passed to the generator twice, and when
\* no organisation failed every id of the resolved set was passed exactly once.
C17_OneGeneratorPerOrg ==
    /\ \A i, j \in 1..Len(generated_orgs) : generated_orgs[i] = generated_orgs[j] => i = j
    /\ Range(generated_orgs) \subseteq CyhyOrgsAndDescendants(requests)
    /\ (GenerationReturned /\ ~HasFailure) =>
          Range(generated_orgs) = CyhyOrgsAndDescendants(requests)

\* C17 witness: generation returned without a failure for a qualifying
\* organisation, a qualifying child of it and a child of both
C17_Witness ==
    /\ pc = "symlink"
    /\ ~HasFailure
    /\ Len(generated_orgs) = 3
    /\ \E a, b, c \in Orgs :
         /\ requests[a].cyhy /\ requests[b].cyhy
         /\ b \in requests[a].children
         /\ c \in requests[a].children /\ c \in requests[b].children

\* C18: a NotificationDoc whose owner is in the list and whose generated_for is
\* empty when a delete_many runs survives it, and no other step of the run
\* removes a document.
C18_InScopePendingDocsAreKept ==
    [][/\ pc \in {"post_cleanup", "oos_cleanup"} =>
            \A d \in notifications :
               (d.ticket_owner \in Range(cyhy_org_ids) /\ d.generated_for = <<>>)
                  => d \in notifications'
       /\ pc \notin {"post_cleanup", "oos_cleanup"} =>
            Cardinality(notifications') = Cardinality(notifications)]_vars

\* C18 witness: after a delivery and both passes a pending document of a
\* listed organisation is still there while another document was removed
C18_Witness ==
    /\ pc = "done"
    /\ post_runs = 1 /\ oos_runs = 1
    /\ deleted_post \cup deleted_oos # {}
    /\ \E d \in notifications :
         d.ticket_owner \in Range(cyhy_org_ids) /\ d.generated_for = <<>>

====
